---- MODULE Spec2Model ----
(***************************************************************************)
(* Walmart-AutoShop-Bot: the price matcher of MyFastScraper                *)
(* (src/walmart_scraper.py) and the add-to-cart orchestration of           *)
(* WalmartBot (src/walmart_bot_test.py), for one input item.               *)
(* Further operations are modelled each with its own specification:       *)
(*   LoadSpec   load_input_data (src/utils/helpers.py)                     *)
(*   FetchSpec  HtmlPageScraper.request_html                               *)
(*   ParseSpec  HtmlParser.search_page_parser                              *)
(*   BatchSpec  MyFastScraper.get_eligible_products                        *)
(*   PoolSpec   WalmartBot.add_products_to_cart (the worker threads)       *)
(*   CartSpec     the cart half on any candidate list of the input file   *)
(*   AttemptSpec  one attempt of attempt_add_to_cart on a given page       *)
(*   RematchSpec  process_product called twice on the same item            *)
(*   BatchFaultSpec  get_eligible_products with an error inside a batch    *)
(*   AnyBandSpec  the pipeline of an item whose band need not be numeric   *)
(*                                                                         *)
(* Prices are floats in the source; the model uses integers (whole units). *)
(* A value that float() may be applied to is a record [kind, val]:         *)
(*   kind = "num"      a number (val)                                      *)
(*   kind = "missing"  the key is absent from the dict                     *)
(*   kind = "bad"      a value float() raises ValueError/TypeError on      *)
(***************************************************************************)
EXTENDS Integers, Sequences, FiniteSets, TLC

\* ------------------------------------------------------------------ bounds
MaxPrice == 3
MaxCands == 3
MaxRetry == 2

\* rows load_input_data reads from one file
MaxRows == 2

\* ------------------------------------------------------- program constants
\* request_html: retries starts at 1 and the loop runs while retries < 3
FirstRetry == 1

RetryLimit == 3

\* request_html accepts a response of status 200 with more than 2000 characters
StatusOk == 200

MinBodyLength == 2000

ShortlistSize == 2

\* scrape_products fetches the pages range(1, 3) of a query
PagesPerQuery == 2

VARIABLES
    pc,               \* position of the pipeline / of the cart worker
    item_info,        \* the item dict (InputItem, later with eligible_products)
    parsed_products,  \* the candidates scraped for the item's query
    item_key,         \* key of the item in scraped_products.json
    retry_attempts,   \* WalmartBot.retry_attempts
    idx,              \* for-loop index i of WalmartBot.process_product (1-based)
    retries,          \* local of attempt_add_to_cart
    proxy_needed,     \* local of attempt_add_to_cart
    session,          \* the browser session of the worker: [open, proxied]
    attempt_ok,       \* return value of the last attempt_add_to_cart call
    result,           \* return value of WalmartBot.process_product
    files,            \* the two outcome-store files
    clock,            \* datetime.now(), as a logical time
    hist,             \* history of the run (observations only, never read by the code)
    signals,          \* the signals of the page an attempt is looking at
    csv,              \* load_input_data: the rows read and the products built
    fetch,            \* HtmlPageScraper.request_html: one call
    parse,            \* HtmlParser.search_page_parser: one call
    batch,            \* MyFastScraper.get_eligible_products: one call
    pool              \* WalmartBot.add_products_to_cart: the worker pool

\* the state of one item's pipeline
item_vars == <<pc, item_info, parsed_products, item_key, retry_attempts, idx, retries,
               proxy_needed, session, attempt_ok, result, files, clock, hist, signals>>

vars == <<pc, item_info, parsed_products, item_key, retry_attempts, idx, retries,
          proxy_needed, session, attempt_ok, result, files, clock, hist, signals,
          csv, fetch, parse, batch, pool>>

\* ------------------------------------------------------------------ values
Num(n) == [kind |-> "num", val |-> n]
Missing == [kind |-> "missing", val |-> 0]
Bad == [kind |-> "bad", val |-> 0]

\* float('inf'): above every price of the model
Inf == MaxPrice + 1

Abs(x) == IF x < 0 THEN -x ELSE x

\* dict.get(key, default) followed by float(): the value float() is applied to
GetOr(v, default) == IF v.kind = "missing" THEN Num(default) ELSE v

\* float(v) raises ValueError / TypeError
FloatRaises(v) == v.kind = "bad"

\* A candidate as HtmlParser builds it: {"name", "price", "url"}; the name is the
\* discovery position, which makes every candidate of a list distinguishable.
Candidate(n, p) == [name |-> n, price |-> p]

\* ------------------------------------------------- MyFastScraper.process_product
\* the mutant of InBand: the upper bound of the band is not checked
InBandNoUpper(price, lo, hi) == lo <= price

\* the mutant of InBand: the lower bound of the band is not checked
InBandNoLower(price, lo, hi) == price <= hi

\* the mutant of InBand: a price equal to min_price is left out
InBandStrict(price, lo, hi) == lo < price /\ price <= hi

InBand(price, lo, hi) == lo <= price /\ price <= hi

\* the filter loop: a candidate is kept when its price converts and lies in the band
RECURSIVE FilterProducts(_, _, _)
FilterProducts(products, lo, hi) ==
    IF products = <<>> THEN <<>>
    ELSE LET product == Head(products)
             v == GetOr(product.price, 0)
             rest == FilterProducts(Tail(products), lo, hi)
         IN IF ~FloatRaises(v) /\ InBand(v.val, lo, hi)
            THEN <<product>> \o rest
            ELSE rest

\* key=lambda x: abs(float(x.get("price", 0)) - min_price)
SortKey(product, lo) == Abs(GetOr(product.price, 0).val - lo)

\* the mutant of InsertSorted: an equal key goes in front (the sort is not stable)
RECURSIVE InsertSortedUnstable(_, _, _)
InsertSortedUnstable(x, s, lo) ==
    IF s = <<>> THEN <<x>>
    ELSE IF SortKey(Head(s), lo) < SortKey(x, lo)
         THEN <<Head(s)>> \o InsertSortedUnstable(x, Tail(s), lo)
         ELSE <<x>> \o s

\* sorted() is stable: x goes behind every element whose key is not larger
RECURSIVE InsertSorted(_, _, _)
InsertSorted(x, s, lo) ==
    IF s = <<>> THEN <<x>>
    ELSE IF SortKey(Head(s), lo) <= SortKey(x, lo)
         THEN <<Head(s)>> \o InsertSorted(x, Tail(s), lo)
         ELSE <<x>> \o s

RECURSIVE SortedProducts(_, _)
SortedProducts(s, lo) ==
    IF s = <<>> THEN <<>>
    ELSE InsertSorted(s[Len(s)], SortedProducts(SubSeq(s, 1, Len(s) - 1), lo), lo)

\* the mutant of TopMatches: one more than two entries is kept
TopMatchesThree(s) == SubSeq(s, 1, IF Len(s) < ShortlistSize + 1 THEN Len(s) ELSE ShortlistSize + 1)

\* sorted_products[:2]
TopMatches(s) == SubSeq(s, 1, IF Len(s) < ShortlistSize THEN Len(s) ELSE ShortlistSize)

\* the mutant of SetKey: a value already under the key is extended
SetKeyExtends(d, key, value) ==
    IF key \in DOMAIN d THEN (key :> (d[key] \o value)) @@ d ELSE (key :> value) @@ d

\* the mutant of SetKey: the dict is rebuilt with the one key
SetKeyOnly(d, key, value) == key :> value

\* item_info[key] = value
SetKey(d, key, value) == (key :> value) @@ d

\* The trailing comma of lines 107 and 111 stores a 1-tuple holding the list;
\* the except branch of line 119 stores a plain empty list.
\* the mutant of OneTuple: the bare empty list of the except branch is stored
OneTupleEmpty(products) == <<>>

\* lines 107 and 111: the trailing comma stores a 1-tuple holding the list
OneTuple(products) == <<products>>

ProcessProduct(item, products) ==
    LET lo == GetOr(item.min_price, 0)
        hi == GetOr(item.max_price, Inf)
    IN IF FloatRaises(lo) \/ FloatRaises(hi)
       THEN SetKey(SetKey(item, "eligible_products", <<>>), "error", "ValueError")
       ELSE LET filtered_products == FilterProducts(products, lo.val, hi.val)
            IN IF filtered_products # <<>>
               THEN SetKey(item, "eligible_products",
                           OneTuple(TopMatches(SortedProducts(filtered_products, lo.val))))
               ELSE SetKey(item, "eligible_products", OneTuple(<<>>))

\* ------------------------------------------------------------ input domains
ItemNames == {"Item A"}

\* save_output_data: product_name.lower().replace(" ", "_")...
KeyOf(product_name) == IF product_name = "Item A" THEN "item_a" ELSE "item_b"

InputItem(name, lo, hi) == [product_name |-> name, min_price |-> Num(lo), max_price |-> Num(hi)]

\* candidate lists as HtmlParser returns them: every price a float
RECURSIVE PriceLists(_, _)
PriceLists(prices, n) ==
    IF n = 0 THEN {<<>>}
    ELSE LET shorter == PriceLists(prices, n - 1)
         IN shorter \cup {Append(s, p) : s \in {t \in shorter : Len(t) = n - 1}, p \in prices}

Candidates(ps) == [i \in 1..Len(ps) |-> Candidate(i, Num(ps[i]))]

\* the cart half is driven with one band, and prices below it and inside it
CartBand == [lo |-> 1, hi |-> 2]
CartPrices == {0, 2}

\* ------------------------------------------------------------ outcome stores
EmptyMap == [k \in {} |-> 0]
OldRecord == [product_name |-> "earlier run"]
OldData == [k \in {"item_a", "item_b"} |-> OldRecord]

\* a store file: absent, not JSON, or a JSON object
StoreFiles == {[kind |-> "missing", data |-> EmptyMap],
               [kind |-> "malformed", data |-> EmptyMap],
               [kind |-> "ok", data |-> OldData]}

\* the mutant of LoadExisting: a file that is not JSON is not caught, the
\* data of the file stays unset and nothing is merged into it
LoadExistingUncaught(file) == IF file.kind = "missing" THEN EmptyMap ELSE file

\* the mutant of DictUpdate: the new record replaces the mapping
DictReplace(data, product) == product

\* data.update(product)
DictUpdate(data, product) == product @@ data

\* the existing data save_product_data loads (lines 126-134)
LoadExisting(file) == IF file.kind = "ok" THEN file.data ELSE EmptyMap

\* file name chosen by is_success
StoreName(is_success) == IF is_success THEN "success" ELSE "failure"

\* the mutant of SaveProductData: the keys recorded in one store are taken out
\* of the other
SaveProductDataExclusive(fs, product, is_success) ==
    [store \in {"success", "failure"} |->
        IF store = StoreName(is_success)
        THEN [kind |-> "ok", data |-> DictUpdate(LoadExisting(fs[store]), product)]
        ELSE IF fs[store].kind = "ok"
        THEN [kind |-> "ok",
              data |-> [k \in DOMAIN fs[store].data \ DOMAIN product |-> fs[store].data[k]]]
        ELSE fs[store]]

SaveProductData(fs, product, is_success) ==
    [fs EXCEPT ![StoreName(is_success)] =
        [kind |-> "ok", data |-> DictUpdate(LoadExisting(@), product)]]

\* ------------------------------------------------------------------ history
HistInit(fs) ==
         [files0 |-> fs,         \* the store files before the run
          opened |-> 0,          \* browser sessions opened for the item
          call_opened |-> 0,     \* ... by the current attempt_add_to_cart call
          call_failed |-> 0,     \* failed attempts of the current call
          item_blocked |-> FALSE,\* a block was detected on the item
          call_blocked |-> FALSE,\* ... in the current call
          confirmed |-> 0,       \* index of the candidate whose add was confirmed
          calls |-> <<>>,        \* the candidates attempt_add_to_cart was called on
          spent |-> <<>>,        \* retries when each of these calls returned
          clicked |-> FALSE,     \* the last attempt clicked the add-to-cart control
          writes |-> <<>>]       \* the stores written, in order

NoSession == [open |-> FALSE, proxied |-> FALSE]

\* ------------------------------------------------------------------ initial
\* the calls a specification does not make
NoCsv == csv = "none"
NoFetch == fetch = "none"
NoParse == parse = "none"
NoBatch == batch = "none"
NoPool == pool = "none"

InitCommon ==
    /\ pc = "scrape"
    /\ item_key = "none"
    /\ idx = 0
    /\ retries = 0
    /\ proxy_needed = FALSE
    /\ session = NoSession
    /\ attempt_ok = FALSE
    /\ result = "unset"
    /\ clock = 1
    /\ hist = HistInit(files)
    /\ signals = "none"

\* the pipeline of one item: scrape, then the cart half
Init ==
    /\ item_info = InputItem("Item A", CartBand.lo, CartBand.hi)
    /\ parsed_products \in {Candidates(ps) : ps \in PriceLists(CartPrices, MaxCands)}
    /\ retry_attempts \in 0..MaxRetry
    /\ files \in [{"success", "failure"} -> StoreFiles]
    /\ InitCommon
    /\ NoCsv /\ NoFetch /\ NoParse /\ NoBatch /\ NoPool

\* the price matcher alone, over every band and candidate list of the bounds
MatchInit ==
    /\ \E lo \in 0..MaxPrice, hi \in 0..MaxPrice :
          /\ lo <= hi
          /\ item_info = InputItem("Item A", lo, hi)
    /\ parsed_products \in {Candidates(ps) : ps \in PriceLists(0..MaxPrice, MaxCands)}
    /\ retry_attempts = 1
    /\ files = [s \in {"success", "failure"} |-> [kind |-> "missing", data |-> EmptyMap]]
    /\ InitCommon
    /\ NoCsv /\ NoFetch /\ NoParse /\ NoBatch /\ NoPool

\* candidate dicts as a direct caller of process_product may pass them: the
\* price a number, absent, or a value float() rejects
RawPrices == {Num(p) : p \in 0..MaxPrice} \cup {Missing, Bad}

RawCandidates(vs) == [i \in 1..Len(vs) |-> Candidate(i, vs[i])]

\* the price matcher on candidate dicts of any shape
RawMatchInit ==
    /\ \E lo \in 0..MaxPrice, hi \in 0..MaxPrice :
          /\ lo <= hi
          /\ item_info = InputItem("Item A", lo, hi)
    /\ parsed_products \in {RawCandidates(vs) : vs \in PriceLists(RawPrices, MaxCands)}
    /\ retry_attempts = 1
    /\ files = [s \in {"success", "failure"} |-> [kind |-> "missing", data |-> EmptyMap]]
    /\ InitCommon
    /\ NoCsv /\ NoFetch /\ NoParse /\ NoBatch /\ NoPool

\* ------------------------------------------------------------ scraping half
\* get_eligible_products, for the item: process_product on the scraped candidates
ScrapeItem ==
    /\ pc = "scrape"
    /\ item_info' = ProcessProduct(item_info, parsed_products)
    /\ pc' = "scraped"
    /\ UNCHANGED <<parsed_products, item_key, retry_attempts, idx, retries, proxy_needed,
                   session, attempt_ok, result, files, clock, hist>>


\* save_output_data writes the item under its key, main() of the bot loads the
\* file (JSON: the 1-tuple comes back as a list holding the list) and
\* add_products_to_cart submits add_to_cart_single_product for the item
SubmitItem ==
    /\ pc = "scraped"
    /\ item_key' = KeyOf(item_info.product_name)
    /\ pc' = "start"
    /\ UNCHANGED <<item_info, parsed_products, retry_attempts, idx, retries, proxy_needed,
                   session, attempt_ok, result, files, clock, hist>>

\* ---------------------------------------------------------------- cart half
\* line 377: not item_info.get('eligible_products') or not item_info['eligible_products'][0]
NoEligibleProducts(item) ==
    \/ "eligible_products" \notin DOMAIN item
    \/ item.eligible_products = <<>>
    \/ item.eligible_products[1] = <<>>

\* the mutant of AlreadyAdded: the flag of an earlier run is not looked at
AlreadyAddedNever(product) == FALSE

\* eligible_product.get('added_to_cart', False)
AlreadyAdded(product) ==
    IF "added_to_cart" \in DOMAIN product THEN product.added_to_cart ELSE FALSE

\* products_list: a shallow copy, its dicts are those of item_info
ProductsList == item_info.eligible_products[1]

\* WalmartBot.process_product, up to the loop
ProcessStart ==
    /\ pc = "start"
    /\ IF NoEligibleProducts(item_info)
       THEN /\ result' = "None"
            /\ pc' = "save"
            /\ idx' = idx
       ELSE /\ idx' = 1
            /\ pc' = "for"
            /\ result' = result
    /\ UNCHANGED <<item_info, parsed_products, item_key, retry_attempts, retries,
                   proxy_needed, session, attempt_ok, files, clock, hist>>

\* the head of the for loop: the end of the list, a skipped candidate, or the
\* call of attempt_add_to_cart (retries = 0, proxy_needed = False)
ForNext ==
    /\ pc = "for"
    /\ IF idx > Len(ProductsList)
       THEN /\ result' = "None"
            /\ pc' = "save"
            /\ UNCHANGED <<idx, retries, proxy_needed, hist>>
       ELSE IF AlreadyAdded(ProductsList[idx])
       THEN /\ idx' = idx + 1
            /\ pc' = "for"
            /\ UNCHANGED <<result, retries, proxy_needed, hist>>
       ELSE /\ retries' = 0
            /\ proxy_needed' = FALSE
            /\ pc' = "while"
            /\ hist' = [hist EXCEPT !.call_opened = 0, !.call_failed = 0,
                                    !.call_blocked = FALSE,
                                    !.calls = Append(@, idx)]
            /\ UNCHANGED <<idx, result>>
    /\ UNCHANGED <<item_info, parsed_products, item_key, retry_attempts, session,
                   attempt_ok, files, clock>>

\* the mutant of SessionProfile: the profile without proxy is always used
SessionProfileNoProxy(proxy) == FALSE

\* lines 278-288: the session is a proxied one exactly when proxy_needed
SessionProfile(proxy) == proxy

\* the mutant of RetriesAfterTimeout: the increment at the end of the loop body
\* is made as well (the continue is missing)
RetriesAfterTimeoutTwice(r) == r + 2

\* lines 314-316: retries += 1; continue
RetriesAfterTimeout(r) == r + 1

\* lines 323-326: retries += 1; proxy_needed = True; continue
RetriesAfterBlock(r) == r + 1

\* line 358: retries += 1 at the end of the loop body
RetriesAfterFailure(r) == r + 1

\* the mutant of ProxyAfterFailure: a failed attempt that is not a block goes
\* back to the profile without proxy
ProxyAfterFailureReset(proxy) == FALSE

\* the mutant of ProxyAfterFailure: every failed attempt switches to the proxy
ProxyAfterAnyFailure(proxy) == TRUE

\* lines 351-358: a failure that is not a block leaves proxy_needed as it is
ProxyAfterFailure(proxy) == proxy

\* the mutant of BudgetLeft: the call gives up one attempt early
BudgetLeftShort(r, attempts) == r + 1 < attempts

\* line 275: while retries < self.retry_attempts
BudgetLeft(r, attempts) == r < attempts

\* the mutant of SessionAfterExit: the session is not torn down
SessionLeftOpen(s) == s

\* leaving the with SB(...) block tears the session down, on every path
SessionAfterExit(s) == NoSession

\* a failed attempt: the session (if any) is left, the loop goes round
FailedAttempt(new_retries, new_proxy, blocked, saw_confirmation, clicked) ==
    /\ retries' = new_retries
    /\ proxy_needed' = new_proxy
    /\ session' = SessionAfterExit(session)
    /\ pc' = "while"
    /\ hist' = [hist EXCEPT !.call_failed = @ + 1,
                            !.call_blocked = @ \/ blocked,
                            !.item_blocked = @ \/ blocked,
                            !.confirmed = IF saw_confirmation THEN idx ELSE @,
                            !.clicked = clicked]
    /\ UNCHANGED <<item_info, parsed_products, item_key, retry_attempts, idx,
                   attempt_ok, result, files, clock>>

\* line 275 and 283: the loop condition holds and SB(...) is entered; acquiring
\* the session may raise, which the except of line 354 catches
OpenSession ==
    /\ pc = "while"
    /\ BudgetLeft(retries, retry_attempts)
    /\ \E acquired \in BOOLEAN :
          IF acquired
          THEN /\ session' = [open |-> TRUE, proxied |-> SessionProfile(proxy_needed)]
               /\ pc' = "opened"
               /\ clock' = clock + 1
               /\ hist' = [hist EXCEPT !.opened = @ + 1, !.call_opened = @ + 1,
                                       !.clicked = FALSE]
               /\ UNCHANGED <<item_info, parsed_products, item_key, retry_attempts, idx,
                              retries, proxy_needed, attempt_ok, result, files>>
          ELSE FailedAttempt(RetriesAfterFailure(retries), ProxyAfterFailure(proxy_needed), FALSE, FALSE, FALSE)

\* line 275 and 361-362: the retry budget is used up, the call returns False
AttemptExhausted ==
    /\ pc = "while"
    /\ ~BudgetLeft(retries, retry_attempts)
    /\ attempt_ok' = FALSE
    /\ pc' = "ret"
    /\ hist' = [hist EXCEPT !.spent = Append(@, retries)]
    /\ UNCHANGED <<item_info, parsed_products, item_key, retry_attempts, idx, retries,
                   proxy_needed, session, result, files, clock>>

\* lines 290-316: window, open, cookies, refresh, wait for the body
LoadPage ==
    /\ pc = "opened"
    /\ \E outcome \in {"loaded", "timeout", "error"} :
          CASE outcome = "loaded" ->
                  /\ pc' = "loaded"
                  /\ UNCHANGED <<item_info, parsed_products, item_key, retry_attempts, idx,
                                 retries, proxy_needed, session, attempt_ok, result, files,
                                 clock, hist>>
            [] outcome = "timeout" ->
                  FailedAttempt(RetriesAfterTimeout(retries), proxy_needed, FALSE, FALSE, FALSE)
            [] outcome = "error" ->
                  FailedAttempt(RetriesAfterFailure(retries), ProxyAfterFailure(proxy_needed), FALSE, FALSE, FALSE)

\* the mutant of IsAccountLoggedIn: the block is looked for first
IsAccountLoggedInBlockFirst(hi_marker, sign_in_marker, block_marker, raised) ==
    IF raised THEN [is_logged_in |-> "None", captcha_detected |-> "None"]
    ELSE IF block_marker THEN [is_logged_in |-> "False", captcha_detected |-> "True"]
    ELSE IF hi_marker THEN [is_logged_in |-> "True", captcha_detected |-> "False"]
    ELSE IF sign_in_marker THEN [is_logged_in |-> "False", captcha_detected |-> "False"]
    ELSE [is_logged_in |-> "True", captcha_detected |-> "None"]

\* WalmartBot.is_account_logged_in on the page signals: the authenticated
\* marker, the sign-in marker, what is_request_blocked says, and an exception
IsAccountLoggedIn(hi_marker, sign_in_marker, block_marker, raised) ==
    IF raised THEN [is_logged_in |-> "None", captcha_detected |-> "None"]
    ELSE IF hi_marker THEN [is_logged_in |-> "True", captcha_detected |-> "False"]
    ELSE IF sign_in_marker THEN [is_logged_in |-> "False", captcha_detected |-> "False"]
    ELSE IF block_marker THEN [is_logged_in |-> "False", captcha_detected |-> "True"]
    ELSE [is_logged_in |-> "True", captcha_detected |-> "None"]

\* the truth value of True / False / None
Truthy(v) == v = "True"

\* lines 319-326 and 351-352, on a page with the given signals
LoginCheckOn(hi_marker, sign_in_marker, block_marker, raised) ==
    /\ pc = "loaded"
    /\ LET status == IsAccountLoggedIn(hi_marker, sign_in_marker, block_marker, raised)
       IN IF Truthy(status.captcha_detected)
          THEN FailedAttempt(RetriesAfterBlock(retries), TRUE, TRUE, FALSE, FALSE)
          ELSE IF Truthy(status.is_logged_in)
          THEN /\ pc' = "logged"
               /\ UNCHANGED <<item_info, parsed_products, item_key, retry_attempts,
                              idx, retries, proxy_needed, session, attempt_ok, result,
                              files, clock, hist>>
          ELSE FailedAttempt(RetriesAfterFailure(retries),
                             ProxyAfterFailure(proxy_needed), FALSE, FALSE, FALSE)

\* the login check, whatever the page shows
LoginCheck ==
    \E hi_marker \in BOOLEAN, sign_in_marker \in BOOLEAN,
       block_marker \in BOOLEAN, raised \in BOOLEAN :
        LoginCheckOn(hi_marker, sign_in_marker, block_marker, raised)

\* the mutant of ReturnsTrue: without the control the cart is not looked at
ReturnsTrueOnlyAfterClick(button_visible, click_raises, in_cart) ==
    button_visible /\ ~click_raises /\ in_cart

\* the mutant of ReturnsTrue: a confirmed add is not returned, the loop goes on
ReturnsTrueNever(button_visible, click_raises, in_cart) == FALSE

\* lines 330-350: with the button, the click must not raise and the cart must
\* confirm; without it, the page must already show the item in the cart
ReturnsTrue(button_visible, click_raises, in_cart) ==
    IF button_visible THEN ~click_raises /\ in_cart ELSE in_cart

\* whether is_item_added_to_cart was evaluated and answered True
SawConfirmation(button_visible, click_raises, in_cart) ==
    in_cart /\ (button_visible => ~click_raises)

\* lines 330-334: the control is clicked when it is visible
Clicked(button_visible) == button_visible

\* lines 328-350: the add-to-cart step of a logged-in attempt, on a page with
\* the given signals
AddToCartOn(button_visible, click_raises, in_cart) ==
    /\ pc = "logged"
    /\ IF ReturnsTrue(button_visible, click_raises, in_cart)
       THEN /\ attempt_ok' = TRUE
            /\ session' = SessionAfterExit(session)
            /\ pc' = "ret"
            /\ hist' = [hist EXCEPT !.confirmed =
                            IF SawConfirmation(button_visible, click_raises, in_cart)
                            THEN idx ELSE @,
                                    !.spent = Append(@, retries),
                                    !.clicked = Clicked(button_visible)]
            /\ UNCHANGED <<item_info, parsed_products, item_key, retry_attempts, idx,
                           retries, proxy_needed, result, files, clock>>
       ELSE FailedAttempt(RetriesAfterFailure(retries), ProxyAfterFailure(proxy_needed),
                          FALSE, SawConfirmation(button_visible, click_raises, in_cart),
                          Clicked(button_visible))

\* the add-to-cart step, whatever the page shows
AddToCart ==
    \E button_visible \in BOOLEAN, click_raises \in BOOLEAN, in_cart \in BOOLEAN :
        AddToCartOn(button_visible, click_raises, in_cart)

\* lines 393-394: the candidate dict is marked; it is the dict item_info holds
MarkAdded(item, i, now) ==
    [item EXCEPT !["eligible_products"][1][i] =
        SetKey(SetKey(@, "added_to_cart", TRUE), "added_time", now)]

\* the mutant of StopEarly: there is no cutoff
StopEarlyNever(i, attempts) == FALSE

\* the mutant of StopEarly: the cutoff does not look at the position
StopEarlyAlways(i, attempts) == attempts >= 2

\* line 399: i >= 1 and self.retry_attempts >= 2, i counted from 0
StopEarly(i, attempts) == i >= 1 /\ attempts >= 2

\* lines 391-403: back in process_product after attempt_add_to_cart returned
AfterAttempt ==
    /\ pc = "ret"
    /\ IF attempt_ok
       THEN /\ item_info' = MarkAdded(item_info, idx, clock)
            /\ result' = "dict"
            /\ pc' = "save"
            /\ idx' = idx
       ELSE IF StopEarly(idx - 1, retry_attempts)
       THEN /\ result' = "None"
            /\ pc' = "save"
            /\ UNCHANGED <<item_info, idx>>
       ELSE /\ idx' = idx + 1
            /\ pc' = "for"
            /\ UNCHANGED <<item_info, result>>
    /\ UNCHANGED <<parsed_products, item_key, retry_attempts, retries, proxy_needed,
                   session, attempt_ok, files, clock, hist>>

\* the mutant of IsSuccess: every item goes to the success store
IsSuccessAlways(r) == TRUE

\* line 418: if added_to_cart_product
IsSuccess(r) == r = "dict"

\* lines 417-424: the outcome {item_key: item_info} is saved to one store
SaveOutcome ==
    /\ pc = "save"
    /\ files' = SaveProductData(files, item_key :> item_info, IsSuccess(result))
    /\ hist' = [hist EXCEPT !.writes = Append(@, StoreName(IsSuccess(result)))]
    /\ pc' = "done"
    /\ UNCHANGED <<item_info, parsed_products, item_key, retry_attempts, idx, retries,
                   proxy_needed, session, attempt_ok, result, clock>>

MatchNext == ScrapeItem /\ UNCHANGED <<signals, csv, fetch, parse, batch, pool>>

MatchSpec == MatchInit /\ [][MatchNext]_vars

RawMatchSpec == RawMatchInit /\ [][MatchNext]_vars

Next ==
    /\ \/ ScrapeItem
       \/ SubmitItem
       \/ ProcessStart
       \/ ForNext
       \/ OpenSession
       \/ AttemptExhausted
       \/ LoadPage
       \/ LoginCheck
       \/ AddToCart
       \/ AfterAttempt
       \/ SaveOutcome
    /\ UNCHANGED <<signals, csv, fetch, parse, batch, pool>>

Spec == Init /\ [][Next]_vars

\* -------------------------------------------------- the pipeline is not run
\* the variables of the one-item pipeline while another operation is studied
ItemIdle ==
    /\ item_info = InputItem("Item A", 1, 1)
    /\ parsed_products = <<>>
    /\ retry_attempts = 1
    /\ files = [s \in {"success", "failure"} |-> [kind |-> "missing", data |-> EmptyMap]]
    /\ InitCommon

\* ------------------------------------------------------------ load_input_data
\* a price cell of the CSV: a decimal number, text float() rejects, the text
\* "nan" (float() accepts it), or None (csv.DictReader fills a short row
\* with None)
Cells == {Num(p) : p \in 0..MaxPrice} \cup {[kind |-> "bad"], [kind |-> "nan"], [kind |-> "none"]}

\* rows of the file: the item name present or blank, and the two price cells
Rows == [name : {"Item A", ""}, min : Cells, max : Cells]

\* float(cell.strip()) raised ValueError and the except branch substituted 0
FloatOr0(cell) == IF cell.kind = "bad" THEN Num(0) ELSE cell

\* a > b on floats: every comparison with nan is false
FloatGt(a, b) == a.kind = "num" /\ b.kind = "num" /\ a.val > b.val

\* a <= b on floats
FloatLe(a, b) == a.kind = "num" /\ b.kind = "num" /\ a.val <= b.val

\* the body of the row loop: whether the row gives a product, the product,
\* and the errors counted
LoadRowResult(row) ==
    IF row.name = ""
    THEN [kept |-> FALSE, errors |-> 1]
    ELSE IF row.min.kind = "none"
    THEN \* None.strip() raises AttributeError: the except of line 349
         [kept |-> FALSE, errors |-> 1]
    ELSE LET e1 == IF row.min.kind = "bad" THEN 1 ELSE 0
             min_price == FloatOr0(row.min)
         IN  IF row.max.kind = "none"
             THEN [kept |-> FALSE, errors |-> e1 + 1]
             ELSE LET e2 == IF row.max.kind = "bad" THEN 1 ELSE 0
                      max_price == FloatOr0(row.max)
                      swap == FloatGt(min_price, max_price)
                  IN  [kept |-> TRUE,
                       errors |-> e1 + e2 + (IF swap THEN 1 ELSE 0),
                       product |-> [product_name |-> row.name,
                                    min_price |-> IF swap THEN max_price ELSE min_price,
                                    max_price |-> IF swap THEN min_price ELSE max_price]]

\* products = [], row_count = 0, error_count = 0; named counts the rows read
\* that carry an item name (history, never read by the program)
LoadInit ==
    /\ csv = [products |-> <<>>, row_count |-> 0, error_count |-> 0,
              returned |-> FALSE, named |-> 0]
    /\ ItemIdle
    /\ NoFetch /\ NoParse /\ NoBatch /\ NoPool

\* one turn of the row loop, on the next row of the file
LoadRow ==
    /\ ~csv.returned
    /\ csv.row_count < MaxRows
    /\ \E row \in Rows :
          LET r == LoadRowResult(row)
          IN  csv' = [csv EXCEPT !.row_count = @ + 1,
                                 !.error_count = @ + r.errors,
                                 !.products = IF r.kept THEN Append(@, r.product) ELSE @,
                                 !.named = IF row.name /= "" THEN @ + 1 ELSE @]

\* the file is at its end: return products
LoadReturn ==
    /\ ~csv.returned
    /\ csv' = [csv EXCEPT !.returned = TRUE]

LoadNext ==
    /\ \/ LoadRow
       \/ LoadReturn
    /\ UNCHANGED item_vars
    /\ UNCHANGED <<fetch, parse, batch, pool>>

LoadSpec == LoadInit /\ [][LoadNext]_vars

\* ---------------------------------------------- HtmlPageScraper.request_html
\* what one session.get can give: a response (status, length of the body),
\* an aiohttp.ClientError, or another exception
Statuses == {StatusOk, 403, 500}

Lengths == {0, MinBodyLength, MinBodyLength + 1}

Responses == [kind : {"response"}, status : Statuses, length : Lengths]

GetOutcomes == Responses \cup {[kind |-> "client_error"], [kind |-> "error"]}

\* the mutant of Plausible: the length of the body is not looked at
PlausibleAnyLength(o) == o.kind = "response" /\ o.status = StatusOk

\* response.status == 200 and len(html_content) > 2000
Plausible(o) == o.kind = "response" /\ o.status = StatusOk /\ o.length > MinBodyLength

\* retries = 1; log is the outcomes of the attempts made (history)
FetchInit ==
    /\ fetch = [retries |-> FirstRetry, ret |-> [kind |-> "running"], log |-> <<>>]
    /\ ItemIdle
    /\ NoCsv /\ NoParse /\ NoBatch /\ NoPool

\* one turn of the while loop: a session, one GET, return or retries += 1
FetchAttempt ==
    /\ fetch.ret.kind = "running"
    /\ fetch.retries < RetryLimit
    /\ \E o \in GetOutcomes :
          fetch' = IF Plausible(o)
                   THEN [fetch EXCEPT !.ret = [kind |-> "content", body |-> o],
                                      !.log = Append(@, o)]
                   ELSE [fetch EXCEPT !.retries = @ + 1,
                                      !.log = Append(@, o)]

\* the loop ends without a return statement: the coroutine returns None
FetchGiveUp ==
    /\ fetch.ret.kind = "running"
    /\ ~(fetch.retries < RetryLimit)
    /\ fetch' = [fetch EXCEPT !.ret = [kind |-> "null"]]

FetchNext ==
    /\ \/ FetchAttempt
       \/ FetchGiveUp
    /\ UNCHANGED item_vars
    /\ UNCHANGED <<csv, parse, batch, pool>>

FetchSpec == FetchInit /\ [][FetchNext]_vars

\* ------------------------------------------------ HtmlParser.search_page_parser
\* what one extraction path finds on a page
ProductLists == {<<>>, <<Candidate(1, Num(1))>>, <<Candidate(2, Num(2))>>}

\* a fetched page: its __NEXT_DATA__ script is absent ("none"), is not JSON
\* ("invalid") or holds json_products ("ok"); html_products is what the
\* div[@role="group"] cards of the page give
Pages == [json : {"none", "invalid", "ok"}, json_products : ProductLists,
          html_products : ProductLists]

\* the valid_html_contents scrape_products passes on: 1..PagesPerQuery pages
PageLists == UNION {[1..n -> Pages] : n \in 1..PagesPerQuery}

\* _extract_products_by_json: json.loads(None) raises TypeError, which the
\* except json.JSONDecodeError does not catch
ExtractByJson(page) ==
    CASE page.json = "none"    -> [raised |-> TRUE]
      [] page.json = "invalid" -> [raised |-> FALSE, products |-> <<>>]
      [] page.json = "ok"      -> [raised |-> FALSE, products |-> page.json_products]

\* _extract_products_by_html
ExtractByHtml(page) == page.html_products

\* the local products is not bound before the first page
ParseInit ==
    /\ \E ps \in PageLists :
          parse = [pages |-> ps, next |-> 1,
                   products |-> [bound |-> FALSE, val |-> <<>>],
                   ret |-> [kind |-> "running"]]
    /\ ItemIdle
    /\ NoCsv /\ NoFetch /\ NoBatch /\ NoPool

\* one turn of the for loop over the pages
ParsePage ==
    /\ parse.ret.kind = "running"
    /\ parse.next <= Len(parse.pages)
    /\ LET page == parse.pages[parse.next]
           by_html == IF page.json = "none"
                      THEN [bound |-> TRUE, val |-> ExtractByHtml(page)]
                      ELSE parse.products
           by_json == ExtractByJson(page)
       IN  parse' = IF by_json.raised
                    THEN \* except Exception: return []
                         [parse EXCEPT !.products = by_html,
                                       !.ret = [kind |-> "list", products |-> <<>>]]
                    ELSE [parse EXCEPT !.products = [bound |-> TRUE, val |-> by_json.products],
                                       !.next = @ + 1]

\* return products, after the loop
ParseReturn ==
    /\ parse.ret.kind = "running"
    /\ parse.next > Len(parse.pages)
    /\ parse' = [parse EXCEPT !.ret =
                    [kind |-> "list",
                     products |-> IF parse.products.bound THEN parse.products.val ELSE <<>>]]

ParseNext ==
    /\ \/ ParsePage
       \/ ParseReturn
    /\ UNCHANGED item_vars
    /\ UNCHANGED <<csv, fetch, batch, pool>>

ParseSpec == ParseInit /\ [][ParseNext]_vars

\* ------------------------------------------ MyFastScraper.get_eligible_products
\* the items of the input file, in file order
BatchItems ==
    <<InputItem("Item A", 1, 2), InputItem("Item B", 0, 1), InputItem("Item C", 2, 3)>>

\* input_items_info: the first n items of the file
InputLists == {SubSeq(BatchItems, 1, n) : n \in 0..Len(BatchItems)}

BatchSizes == 1..Len(BatchItems)

\* what scrape_products(query) may return: candidates found for that query
ScrapeResults(query) ==
    {<<>>, <<Candidate(query, Num(1))>>, <<Candidate(query, Num(2))>>,
     <<Candidate(query, Num(2)), Candidate(query, Num(1))>>}

Min(a, b) == IF a < b THEN a ELSE b

\* the mutant of GatherResults: the results in the order the tasks completed
GatherByCompletion(tasks, completed) ==
    [k \in 1..Len(tasks) |-> tasks[completed[k]].products]

\* asyncio.gather(*scrape_tasks): the results in the order of the tasks
GatherResults(tasks, completed) ==
    [k \in 1..Len(tasks) |-> tasks[k].products]

\* results = []; order, scraped and failed are history: the items in the
\* order their scrapes completed, what the scrape of each item returned, and
\* whether an exception was raised inside the try block
BatchInit ==
    /\ \E items \in InputLists, size \in BatchSizes :
          batch = [items |-> items, batch_size |-> size, start |-> 0,
                   phase |-> "loop", tasks |-> <<>>, completed |-> <<>>,
                   results |-> <<>>, ret |-> <<>>, failed |-> FALSE,
                   order |-> <<>>,
                   scraped |-> [i \in 1..Len(items) |-> <<>>]]
    /\ ItemIdle
    /\ NoCsv /\ NoFetch /\ NoParse /\ NoPool

\* the next batch: one scrape task per item of the slice
BatchSubmit ==
    /\ batch.phase = "loop"
    /\ batch.start < Len(batch.items)
    /\ LET n == Min(batch.batch_size, Len(batch.items) - batch.start)
       IN  batch' = [batch EXCEPT !.phase = "gather",
                                  !.completed = <<>>,
                                  !.tasks = [k \in 1..n |-> [done |-> FALSE, products |-> <<>>]]]

\* one of the concurrent scrape tasks of the batch completes
ScrapeComplete ==
    /\ batch.phase = "gather"
    /\ \E k \in 1..Len(batch.tasks) :
          /\ ~batch.tasks[k].done
          /\ \E ps \in ScrapeResults(batch.items[batch.start + k].product_name) :
                batch' = [batch EXCEPT !.tasks[k] = [done |-> TRUE, products |-> ps],
                                       !.completed = Append(@, k),
                                       !.order = Append(@, batch.start + k),
                                       !.scraped[batch.start + k] = ps]

\* gather returns; every item of the batch is matched and appended
BatchProcess ==
    /\ batch.phase = "gather"
    /\ \A k \in 1..Len(batch.tasks) : batch.tasks[k].done
    /\ LET scraped_products == GatherResults(batch.tasks, batch.completed)
           processed == [k \in 1..Len(batch.tasks) |->
                            ProcessProduct(batch.items[batch.start + k], scraped_products[k])]
       IN  batch' = [batch EXCEPT !.results = @ \o processed,
                                  !.start = @ + batch.batch_size,
                                  !.tasks = <<>>,
                                  !.phase = "loop"]

\* return results
BatchReturn ==
    /\ batch.phase = "loop"
    /\ batch.start >= Len(batch.items)
    /\ batch' = [batch EXCEPT !.phase = "returned", !.ret = batch.results]

BatchNext ==
    /\ \/ BatchSubmit
       \/ ScrapeComplete
       \/ BatchProcess
       \/ BatchReturn
    /\ UNCHANGED item_vars
    /\ UNCHANGED <<csv, fetch, parse, pool>>

BatchSpec == BatchInit /\ [][BatchNext]_vars

\* an exception is raised while a batch is processed (lines 135-156): the
\* except Exception of line 161 logs it and returns []
BatchError ==
    /\ batch.phase \in {"loop", "gather"}
    /\ batch.start < Len(batch.items)
    /\ batch' = [batch EXCEPT !.phase = "returned", !.ret = <<>>, !.failed = TRUE]

\* get_eligible_products with errors inside the batches
BatchFaultNext ==
    /\ \/ BatchSubmit
       \/ ScrapeComplete
       \/ BatchProcess
       \/ BatchReturn
       \/ BatchError
    /\ UNCHANGED item_vars
    /\ UNCHANGED <<csv, fetch, parse, pool>>

BatchFaultSpec == BatchInit /\ [][BatchFaultNext]_vars

\* --------------------------------------------- WalmartBot.add_products_to_cart
\* the keys of products_data, in the order they are submitted
PoolOrder == <<"item_a", "item_b">>

PoolKeys == {PoolOrder[i] : i \in 1..Len(PoolOrder)}

\* products_data[key]
PoolItem(key) == InputItem(key, 1, 2)

\* the pcs of a task a worker thread is running
Running == {"process", "browser", "stuck", "read", "open", "write"}

Finished == {"done", "raised"}

\* the mutant of WorkerCount: one worker thread per item
WorkerCountItems(max_workers, items) == items

\* min(self.max_workers, len(products_data))
WorkerCount(max_workers, items) == Min(max_workers, items)

\* the browser of a task: a local of attempt_add_to_cart; opened_by and
\* used_by are history
NoBrowser == [open |-> FALSE, opened_by |-> "nobody", used_by |-> {}]

\* the mutant of CanStart: a task starts without a free worker
CanStartAlways(running, max_workers) == TRUE

\* ThreadPoolExecutor(max_workers): a queued task starts when a worker is free
CanStart(running, max_workers) == running < max_workers

\* _configure_window_settings: the screen of the fallback branch and the
\* window dimensions
ScreenWidth == 1920

ScreenHeight == 1000

WindowWidth == 600

WindowHeight == 400

WindowPadding == 10

Max(a, b) == IF a > b THEN a ELSE b

\* cols and rows of get_smart_random_position
Cols == Max(1, ScreenWidth \div (WindowWidth + WindowPadding))

GridRows == Max(1, (ScreenHeight - 80) \div (WindowHeight + WindowPadding))

\* window_index of a task: its position in products_data, from 0
WindowIndex(key) == (CHOOSE i \in 1..Len(PoolOrder) : PoolOrder[i] = key) - 1

\* get_smart_random_position for index < max_slots: the grid cell of the
\* index (every index of PoolOrder is below max_slots)
GridPosition(index) ==
    <<(index % Cols) * (WindowWidth + WindowPadding),
      (index \div Cols) * (WindowHeight + WindowPadding)>>

\* open(file_path, 'w') truncates the file before json.dump writes it
Truncated == [kind |-> "malformed", data |-> EmptyMap]

\* used_positions = set(), the executor and the futures; overlap is history:
\* a task read a store file another task had read and not yet written
PoolInit ==
    /\ \E w \in 1..Len(PoolOrder), fs \in [{"success", "failure"} -> StoreFiles] :
          pool = [max_workers |-> w,
                  task |-> [k \in PoolKeys |->
                               [pc |-> "queued", added |-> FALSE, data |-> EmptyMap,
                                tries |-> 0, browser |-> NoBrowser]],
                  store |-> fs,
                  used_positions |-> {},
                  next |-> 1,
                  exc |-> FALSE,
                  main |-> "running",
                  overlap |-> FALSE]
    /\ ItemIdle
    /\ NoCsv /\ NoFetch /\ NoParse /\ NoBatch

\* a worker thread takes the oldest queued task: add_to_cart_single_product
PoolStart ==
    \E i \in 1..Len(PoolOrder) :
        /\ pool.task[PoolOrder[i]].pc = "queued"
        /\ \A j \in 1..(i - 1) : pool.task[PoolOrder[j]].pc /= "queued"
        /\ CanStart(Cardinality({k \in PoolKeys : pool.task[k].pc \in Running}),
                    WorkerCount(pool.max_workers, Len(PoolOrder)))
        /\ pool' = [pool EXCEPT !.task[PoolOrder[i]].pc = "process"]

\* an attempt of the task enters with SB(...): the thread of the task opens
\* a browser of its own and places its window, which adds the position to
\* self.used_positions
PoolOpenSession ==
    \E k \in PoolKeys :
        /\ pool.task[k].pc = "process"
        /\ pool.task[k].tries < MaxRetry
        /\ pool' = [pool EXCEPT
               !.task[k].pc = "browser",
               !.task[k].tries = @ + 1,
               !.task[k].browser = [open |-> TRUE, opened_by |-> k, used_by |-> {k}],
               !.used_positions = @ \cup {GridPosition(WindowIndex(k))}]

\* the attempt leaves the with block: the add was confirmed and
\* process_product returns the result, or the attempt failed (an error inside
\* the session is caught there and is a failed attempt)
PoolAttemptEnd ==
    \E k \in PoolKeys, confirmed \in BOOLEAN :
        /\ pool.task[k].pc = "browser"
        /\ pool' = [pool EXCEPT
               !.task[k].pc = IF confirmed THEN "read" ELSE "process",
               !.task[k].added = confirmed,
               !.task[k].browser = NoBrowser]

\* a browser operation of the attempt never returns
PoolStuck ==
    \E k \in PoolKeys :
        /\ pool.task[k].pc = "browser"
        /\ pool' = [pool EXCEPT !.task[k].pc = "stuck"]

\* process_product returns None: no candidate, or no attempt left
PoolProcess ==
    \E k \in PoolKeys :
        /\ pool.task[k].pc = "process"
        /\ pool' = [pool EXCEPT !.task[k].pc = "read", !.task[k].added = FALSE]

\* save_product_data, lines 126-134: load the existing data
PoolSaveRead ==
    \E k \in PoolKeys :
        /\ pool.task[k].pc = "read"
        /\ LET s == StoreName(pool.task[k].added)
           IN  pool' = [pool EXCEPT
                   !.task[k].pc = "open",
                   !.task[k].data = LoadExisting(pool.store[s]),
                   !.overlap = @ \/ \E o \in PoolKeys \ {k} :
                                       /\ pool.task[o].pc \in {"open", "write"}
                                       /\ StoreName(pool.task[o].added) = s]

\* save_product_data, line 138: open the file for writing; the open fails
\* with OSError (nothing is caught) or truncates the file
PoolSaveOpen ==
    \E k \in PoolKeys, oserror \in BOOLEAN :
        /\ pool.task[k].pc = "open"
        /\ pool' = IF oserror
                   THEN [pool EXCEPT !.task[k].pc = "raised"]
                   ELSE [pool EXCEPT !.task[k].pc = "write",
                                     !.store[StoreName(pool.task[k].added)] = Truncated]

\* save_product_data, lines 137-139: data.update(product); json.dump
PoolSaveWrite ==
    \E k \in PoolKeys :
        /\ pool.task[k].pc = "write"
        /\ pool' = [pool EXCEPT
               !.task[k].pc = "done",
               !.store[StoreName(pool.task[k].added)] =
                   [kind |-> "ok",
                    data |-> DictUpdate(pool.task[k].data, k :> PoolItem(k))]]

\* for future in futures: future.result() re-raises what the task raised
PoolJoin ==
    /\ pool.main = "running"
    /\ pool.next <= Len(PoolOrder)
    /\ pool.task[PoolOrder[pool.next]].pc \in Finished
    /\ pool' = IF pool.task[PoolOrder[pool.next]].pc = "raised"
               THEN [pool EXCEPT !.exc = TRUE, !.next = Len(PoolOrder) + 1]
               ELSE [pool EXCEPT !.next = @ + 1]

\* leaving the with block waits for every task; then the method returns, or
\* the exception of future.result() leaves add_products_to_cart
PoolExit ==
    /\ pool.main = "running"
    /\ pool.next > Len(PoolOrder)
    /\ \A k \in PoolKeys : pool.task[k].pc \in Finished
    /\ pool' = [pool EXCEPT !.main = IF pool.exc THEN "raised" ELSE "completed"]

PoolNext ==
    /\ \/ PoolStart
       \/ PoolOpenSession
       \/ PoolAttemptEnd
       \/ PoolStuck
       \/ PoolProcess
       \/ PoolSaveRead
       \/ PoolSaveOpen
       \/ PoolSaveWrite
       \/ PoolJoin
       \/ PoolExit
    /\ UNCHANGED item_vars
    /\ UNCHANGED <<csv, fetch, parse, batch>>

PoolSpec == PoolInit /\ [][PoolNext]_vars

\* ------------------------------------ the cart half on any scraped_products.json
\* a candidate an earlier run marked as added
Flagged(product) == SetKey(SetKey(product, "added_to_cart", TRUE), "added_time", 0)

\* the candidate lists an item of scraped_products.json may hold: any length
\* up to MaxCands, every candidate in the band, some marked as added
CartLists ==
    UNION {{[i \in 1..n |-> IF flags[i] THEN Flagged(Candidate(i, Num(CartBand.lo)))
                                         ELSE Candidate(i, Num(CartBand.lo))] :
               flags \in [1..n -> BOOLEAN]} : n \in 0..MaxCands}

\* add_to_cart_single_product is submitted for an item loaded from the file
CartInit ==
    /\ \E products \in CartLists :
          item_info = SetKey(InputItem("Item A", CartBand.lo, CartBand.hi),
                             "eligible_products", <<products>>)
    /\ parsed_products = <<>>
    /\ retry_attempts \in 0..MaxRetry
    /\ files = [s \in {"success", "failure"} |-> [kind |-> "missing", data |-> EmptyMap]]
    /\ pc = "start"
    /\ item_key = KeyOf("Item A")
    /\ idx = 0
    /\ retries = 0
    /\ proxy_needed = FALSE
    /\ session = NoSession
    /\ attempt_ok = FALSE
    /\ result = "unset"
    /\ clock = 1
    /\ hist = HistInit(files)
    /\ signals = "none"
    /\ NoCsv /\ NoFetch /\ NoParse /\ NoBatch /\ NoPool

CartNext ==
    /\ \/ ProcessStart
       \/ ForNext
       \/ OpenSession
       \/ AttemptExhausted
       \/ LoadPage
       \/ LoginCheck
       \/ AddToCart
       \/ AfterAttempt
       \/ SaveOutcome
    /\ UNCHANGED <<signals, csv, fetch, parse, batch, pool>>

CartSpec == CartInit /\ [][CartNext]_vars

\* ------------------------------------------------ one attempt on a given page
\* what the page of an attempt shows: the markers is_account_logged_in and
\* is_request_blocked look for (raised: the check raises before a verdict),
\* the add-to-cart control, whether clicking it raises, and whether
\* is_item_added_to_cart finds the confirmation
PageSignals ==
    [hi_marker : BOOLEAN, sign_in_marker : BOOLEAN, block_marker : BOOLEAN,
     raised : BOOLEAN, button_visible : BOOLEAN, click_raises : BOOLEAN,
     in_cart : BOOLEAN]

\* an attempt of attempt_add_to_cart whose page has loaded (line 318), after
\* 0 or more failed attempts of the same call
AttemptInit ==
    /\ item_info = SetKey(InputItem("Item A", CartBand.lo, CartBand.hi),
                          "eligible_products", <<<<Candidate(1, Num(CartBand.lo))>>>>)
    /\ parsed_products = <<>>
    /\ retry_attempts = MaxRetry
    /\ files = [s \in {"success", "failure"} |-> [kind |-> "missing", data |-> EmptyMap]]
    /\ pc = "loaded"
    /\ item_key = KeyOf("Item A")
    /\ idx = 1
    /\ retries \in 0..(MaxRetry - 1)
    /\ proxy_needed \in BOOLEAN
    /\ session = [open |-> TRUE, proxied |-> SessionProfile(proxy_needed)]
    /\ attempt_ok = FALSE
    /\ result = "unset"
    /\ clock = 1
    /\ hist = [HistInit(files) EXCEPT !.opened = retries + 1,
                                      !.call_opened = retries + 1,
                                      !.call_failed = retries,
                                      !.call_blocked = proxy_needed,
                                      !.item_blocked = proxy_needed,
                                      !.calls = <<1>>]
    /\ signals \in PageSignals
    /\ NoCsv /\ NoFetch /\ NoParse /\ NoBatch /\ NoPool

\* the login check on the page
LoginOnPage ==
    /\ LoginCheckOn(signals.hi_marker, signals.sign_in_marker, signals.block_marker,
                    signals.raised)
    /\ UNCHANGED signals

\* the add-to-cart step on the page
AddToCartOnPage ==
    /\ AddToCartOn(signals.button_visible, signals.click_raises, signals.in_cart)
    /\ UNCHANGED signals

AttemptNext ==
    /\ \/ LoginOnPage
       \/ AddToCartOnPage
    /\ UNCHANGED <<csv, fetch, parse, batch, pool>>

AttemptSpec == AttemptInit /\ [][AttemptNext]_vars

\* ------------------------------------------------ the price matcher, called twice
\* process_product is called again, on the record the first call returned and
\* the same candidate list
RematchItem ==
    /\ pc = "scraped"
    /\ item_info' = ProcessProduct(item_info, parsed_products)
    /\ pc' = "rematched"
    /\ UNCHANGED <<parsed_products, item_key, retry_attempts, idx, retries, proxy_needed,
                   session, attempt_ok, result, files, clock, hist>>

RematchNext ==
    /\ \/ ScrapeItem
       \/ RematchItem
    /\ UNCHANGED <<signals, csv, fetch, parse, batch, pool>>

RematchSpec == RawMatchInit /\ [][RematchNext]_vars

\* ------------------------------------- the pipeline on an item of any band
\* a band value as a direct caller of the scraper may pass it: a number, an
\* absent key, or a value float() rejects
BandValues(n) == {Num(n), Missing, Bad}

\* the pipeline of one item whose band need not be numeric
AnyBandInit ==
    /\ \E lo \in BandValues(CartBand.lo), hi \in BandValues(CartBand.hi) :
          item_info = [product_name |-> "Item A", min_price |-> lo, max_price |-> hi]
    /\ parsed_products \in {Candidates(ps) : ps \in PriceLists(CartPrices, MaxCands)}
    /\ retry_attempts \in 0..MaxRetry
    /\ files = [s \in {"success", "failure"} |-> [kind |-> "missing", data |-> EmptyMap]]
    /\ InitCommon
    /\ NoCsv /\ NoFetch /\ NoParse /\ NoBatch /\ NoPool

AnyBandSpec == AnyBandInit /\ [][Next]_vars

\* ------------------------------------------------------- reading the state
\* the shortlist attached to the item: the list inside the stored 1-tuple
Shortlist ==
    IF "eligible_products" \in DOMAIN item_info /\ item_info.eligible_products # <<>>
    THEN item_info.eligible_products[1]
    ELSE <<>>

BandLo == item_info.min_price.val
BandHi == item_info.max_price.val

\* |price - min_price| of a candidate
Dist(c) == Abs(c.price.val - BandLo)

\* the positions of the scraped candidates whose price lies in the band
InBandPositions ==
    {i \in DOMAIN parsed_products :
        /\ parsed_products[i].price.kind = "num"
        /\ BandLo <= parsed_products[i].price.val
        /\ parsed_products[i].price.val <= BandHi}

Scraped == pc # "scrape"

\* ----------------------------------------------------------- price matcher
\* C1: every candidate of the shortlist process_product attaches to the item
\* has a numeric price with min_price <= price <= max_price.
C1_ShortlistInBand ==
    Scraped =>
        \A k \in 1..Len(Shortlist) :
            /\ Shortlist[k].price.kind = "num"
            /\ BandLo <= Shortlist[k].price.val
            /\ Shortlist[k].price.val <= BandHi

\* a candidate was shortlisted from a list holding prices below and above the band
C1_Witness ==
    /\ pc = "scraped"
    /\ Len(Shortlist) = 1
    /\ \E i \in DOMAIN parsed_products : parsed_products[i].price.val > BandHi
    /\ \E i \in DOMAIN parsed_products : parsed_products[i].price.val < BandLo

\* C2: the shortlist is in ascending order of |price - min_price|, and two
\* candidates at the same distance keep their discovery order.
C2_ShortlistSortedStable ==
    Scraped =>
        \A j \in 1..Len(Shortlist) : \A k \in 1..Len(Shortlist) :
            j < k =>
                /\ Dist(Shortlist[j]) <= Dist(Shortlist[k])
                /\ Dist(Shortlist[j]) = Dist(Shortlist[k])
                      => Shortlist[j].name < Shortlist[k].name

\* a tie: two shortlisted candidates at the same distance, and a farther
\* candidate discovered before them
C2_Witness ==
    /\ pc = "scraped"
    /\ Len(Shortlist) = 2
    /\ Dist(Shortlist[1]) = Dist(Shortlist[2])
    /\ \E i \in InBandPositions :
          /\ i < Shortlist[1].name
          /\ Dist(parsed_products[i]) > Dist(Shortlist[1])

\* C3: the shortlist is the first two entries of the ranking of all in-band
\* candidates: it is non-empty when a candidate lies in the band, its entries
\* are in-band candidates, entry 0 is at the smallest distance of all in-band
\* candidates, and no in-band candidate left out ranks before an entry.
C3_ShortlistIsTopOfRanking ==
    Scraped =>
        /\ InBandPositions # {} => Shortlist # <<>>
        /\ Len(Shortlist) = (IF Cardinality(InBandPositions) < 2
                             THEN Cardinality(InBandPositions) ELSE 2)
        /\ \A k \in 1..Len(Shortlist) :
              /\ Shortlist[k].name \in InBandPositions
              /\ Shortlist[k] = parsed_products[Shortlist[k].name]
        /\ \A i \in InBandPositions : Dist(Shortlist[1]) <= Dist(parsed_products[i])
        /\ \A i \in InBandPositions :
              (\A k \in 1..Len(Shortlist) : Shortlist[k].name # i) =>
                  \A k \in 1..Len(Shortlist) :
                      \/ Dist(Shortlist[k]) < Dist(parsed_products[i])
                      \/ /\ Dist(Shortlist[k]) = Dist(parsed_products[i])
                         /\ Shortlist[k].name < i

\* three in-band candidates, the closest one discovered last
C3_Witness ==
    /\ pc = "scraped"
    /\ Cardinality(InBandPositions) = 3
    /\ Shortlist[1].name = 3
    /\ Dist(parsed_products[1]) > Dist(parsed_products[3])

\* C4: the value stored as the item's eligible set, and the shortlist in it,
\* have at most 2 entries.
C4_AtMostTwo ==
    Scraped =>
        /\ Len(item_info.eligible_products) <= 2
        /\ Len(Shortlist) <= 2

\* more than two candidates lie in the band and two are kept
C4_Witness ==
    /\ pc = "scraped"
    /\ Cardinality(InBandPositions) > 2
    /\ Len(Shortlist) = 2

\* --------------------------------------------------------- cart orchestrator
\* the positions of a worker inside attempt_add_to_cart
InAttempt == pc \in {"while", "opened", "loaded", "logged"}

\* the record the run stored for the item in a store
Stored(store) ==
    /\ files[store].kind = "ok"
    /\ item_key \in DOMAIN files[store].data
    /\ files[store].data[item_key] = item_info

\* C5: if no scraped candidate lies in the band, the shortlist is empty, no
\* browser session is ever opened for the item, and the item is saved to the
\* failure store (and not to the success store).
C5_NoCandidateNoSession ==
    (Scraped /\ InBandPositions = {}) =>
        /\ Shortlist = <<>>
        /\ hist.opened = 0
        /\ ~session.open
        /\ pc = "done" =>
              /\ hist.writes = <<"failure">>
              /\ Stored("failure")
              /\ files["success"] = hist.files0["success"]

\* an item with candidates, none in the band, was processed with a retry budget
C5_Witness ==
    /\ pc = "done"
    /\ InBandPositions = {}
    /\ Len(parsed_products) >= 2
    /\ retry_attempts >= 1

\* C6 as stated: once a block was detected on the item, every browser session
\* opened for the item afterwards is a proxied one, on later candidates too.
C6_ProxyForRestOfItem ==
    (hist.item_blocked /\ session.open) => session.proxied

\* C6, amended: once a block was detected in an attempt_add_to_cart call, the
\* retry counter was incremented and every session the same call opens
\* afterwards is a proxied one; a call in which no block was detected (the
\* call for a later candidate, too) opens sessions without proxy.
C6_ProxyForRestOfCall ==
    /\ session.open => (session.proxied <=> hist.call_blocked)
    /\ (InAttempt /\ hist.call_blocked) => (proxy_needed /\ retries >= 1)
    /\ (InAttempt /\ ~hist.call_blocked) => ~proxy_needed

\* the retry after a block runs in a proxied session
C6_Witness ==
    /\ session.open
    /\ session.proxied
    /\ hist.call_blocked
    /\ retries >= 1

\* C7: every failed attempt adds exactly one to the retry counter of the
\* current candidate, and a call of attempt_add_to_cart opens no more than
\* retry_attempts browser sessions.
C7_OneRetryPerFailedAttempt ==
    /\ retries = hist.call_failed
    /\ hist.call_opened <= retry_attempts
    /\ hist.call_opened <= retries + 1

\* a call used its whole budget of several sessions
C7_Witness ==
    /\ pc = "ret"
    /\ ~attempt_ok
    /\ retry_attempts >= 2
    /\ hist.call_opened = retry_attempts
    /\ hist.call_failed = retry_attempts

\* C8: once an attempt saw the confirmation, no further browser session is
\* opened for the item, the confirmed candidate (and no other) is marked
\* added_to_cart with a completion time, and the item is saved as a success.
C8_AfterConfirmation ==
    hist.confirmed # 0 =>
        /\ ~session.open
        /\ pc \in {"ret", "save", "done"}
        /\ attempt_ok
        /\ idx = hist.confirmed
        /\ pc \in {"save", "done"} =>
              /\ result = "dict"
              /\ \A k \in 1..Len(ProductsList) :
                    AlreadyAdded(ProductsList[k]) <=> k = hist.confirmed
              /\ "added_time" \in DOMAIN ProductsList[hist.confirmed]
        /\ pc = "done" =>
              /\ hist.writes = <<"success">>
              /\ Stored("success")

C8_NoSessionAfterConfirmation ==
    [](C8_AfterConfirmation) /\ [][hist.confirmed # 0 => hist'.opened = hist.opened]_vars

\* the second candidate was confirmed after the first used up its retries
C8_Witness ==
    /\ pc = "done"
    /\ hist.confirmed = 2
    /\ hist.opened >= 2

\* C9: a processed item is written to exactly one store, under its key: the
\* success store if and only if an attempt on one of its candidates was
\* confirmed, the failure store otherwise; the other store is left as it was.
C9_ExactlyOneStore ==
    /\ pc # "done" => (hist.writes = <<>> /\ files = hist.files0)
    /\ pc = "done" =>
          /\ Len(hist.writes) = 1
          /\ hist.writes[1] = "success" <=> hist.confirmed # 0
          /\ Stored(hist.writes[1])
          /\ \A store \in {"success", "failure"} :
                store # hist.writes[1] => files[store] = hist.files0[store]

\* an item whose candidates were all exhausted went to the failure store
C9_Witness ==
    /\ pc = "done"
    /\ hist.confirmed = 0
    /\ hist.opened >= 2
    /\ hist.writes = <<"failure">>

\* the keys a store file holds
StoredKeys(file) == IF file.kind = "ok" THEN DOMAIN file.data ELSE {}

\* C10: a save for key k with record v leaves the chosen store mapping k to v
\* and every other key of the store mapped to the record it had; the other
\* store is not written.
C10_SaveMerges ==
    [][files' # files =>
        \E store \in {"success", "failure"} :
            /\ \A other \in {"success", "failure"} \ {store} : files'[other] = files[other]
            /\ files'[store].kind = "ok"
            /\ DOMAIN files'[store].data = StoredKeys(files[store]) \cup {item_key}
            /\ files'[store].data[item_key] = item_info
            /\ \A k \in StoredKeys(files[store]) \ {item_key} :
                  files'[store].data[k] = files[store].data[k]
    ]_vars

\* the store written held a record for the item's key and one for another key
C10_Witness ==
    /\ pc = "done"
    /\ hist.files0[hist.writes[1]].kind = "ok"
    /\ hist.files0[hist.writes[1]].data["item_a"] = OldRecord
    /\ files[hist.writes[1]].data["item_a"] = item_info
    /\ files[hist.writes[1]].data["item_b"] = OldRecord

\* C13: a browser session is open only inside the with block of an attempt:
\* after every exit of an attempt (success, timeout, block, not logged in,
\* click error, exception), when the next attempt starts and when
\* attempt_add_to_cart has returned, the worker holds no open session.
C13_SessionTornDown ==
    pc \notin {"opened", "loaded", "logged"} => ~session.open

\* an attempt failed inside its session and the next attempt is about to start
C13_Witness ==
    /\ pc = "while"
    /\ retries >= 1
    /\ retries < retry_attempts
    /\ hist.call_opened = retries
    /\ ~session.open

\* C14 as stated: no candidate whose price is missing or not numeric is in
\* the shortlist, whatever the band, and process_product does not fail.
C14_NoPricelessCandidate ==
    Scraped =>
        /\ "error" \notin DOMAIN item_info
        /\ \A k \in 1..Len(Shortlist) : Shortlist[k].price.kind = "num"

\* the fields of the item record before process_product
InputFields == {"product_name", "min_price", "max_price"}

\* C15 as stated: process_product changes neither the item record it is
\* given nor the candidate list.
C15_NoSideEffects ==
    [][item_info' = item_info /\ parsed_products' = parsed_products]_vars

\* C15, amended: process_product leaves the candidate list unchanged and
\* every field the item record had unchanged; it adds the key
\* eligible_products (and error, when it fails) to the record it was given.
C15_OnlyAddsEligible ==
    [][/\ parsed_products' = parsed_products
       /\ DOMAIN item_info \subseteq DOMAIN item_info'
       /\ DOMAIN item_info' \subseteq DOMAIN item_info \cup {"eligible_products", "error"}
       /\ \A k \in DOMAIN item_info \ {"eligible_products", "error"} :
             item_info'[k] = item_info[k]
    ]_vars

\* the item record holds a shortlist besides its three input fields
C15_Witness ==
    /\ pc = "scraped"
    /\ DOMAIN item_info = InputFields \cup {"eligible_products"}
    /\ Len(Shortlist) = 2

C17_LoadedMinLeMax ==
    /\ csv.named = Len(csv.products)
    /\ \A k \in 1..Len(csv.products) :
          FloatLe(csv.products[k].min_price, csv.products[k].max_price)

\* attempts request_html can make
MaxAttempts == RetryLimit - FirstRetry

\* C18: request_html returns content only from a response with status 200
\* and a body longer than the threshold, and the content of that response;
\* it makes at most MaxAttempts attempts, tries again after every attempt
\* that failed while attempts are left, and returns None once all failed.
C18_FetchContract ==
    /\ Len(fetch.log) <= MaxAttempts
    /\ \A k \in 1..(Len(fetch.log) - 1) :
          ~(fetch.log[k].kind = "response" /\ fetch.log[k].status = StatusOk
            /\ fetch.log[k].length > MinBodyLength)
    /\ fetch.ret.kind = "content" =>
          /\ fetch.ret.body = fetch.log[Len(fetch.log)]
          /\ fetch.ret.body.kind = "response"
          /\ fetch.ret.body.status = StatusOk
          /\ fetch.ret.body.length > MinBodyLength
    /\ fetch.ret.kind = "null" =>
          /\ Len(fetch.log) = MaxAttempts
          /\ \A k \in 1..Len(fetch.log) :
                ~(fetch.log[k].kind = "response" /\ fetch.log[k].status = StatusOk
                  /\ fetch.log[k].length > MinBodyLength)
    /\ fetch.ret.kind \in {"running", "content", "null"}

\* a transport error, then a page of status 200 that is too short: None
C18_Witness ==
    /\ fetch.ret.kind = "null"
    /\ fetch.log[1].kind = "client_error"
    /\ fetch.log[2].kind = "response"
    /\ fetch.log[2].status = StatusOk
    /\ fetch.log[2].length = MinBodyLength

\* C19 as stated: when a page has no JSON block, what search_page_parser
\* returns holds the candidates the HTML extraction finds on that page.
C19_HtmlFallbackReturned ==
    parse.ret.kind = "list" =>
        \A k \in 1..Len(parse.pages) :
            parse.pages[k].json = "none" =>
                \A j \in 1..Len(parse.pages[k].html_products) :
                    \E m \in 1..Len(parse.ret.products) :
                        parse.ret.products[m] = parse.pages[k].html_products[j]

\* C20: the i-th result of get_eligible_products is the i-th input item
\* matched against the candidates scraped for its own query, whatever the
\* order the scrapes completed in; the returned list has one result per item.
C20_ResultsInSubmissionOrder ==
    /\ Len(batch.results) <= Len(batch.items)
    /\ \A i \in 1..Len(batch.results) :
          batch.results[i] = ProcessProduct(batch.items[i], batch.scraped[i])
    /\ batch.phase = "returned" =>
          /\ batch.ret = batch.results
          /\ Len(batch.ret) = Len(batch.items)

\* in a batch of two the second scrape completed first, with other candidates
C20_Witness ==
    /\ batch.phase = "returned"
    /\ batch.batch_size = 2
    /\ batch.order = <<2, 1, 3>>
    /\ batch.scraped[1] /= <<>>
    /\ batch.scraped[2] /= <<>>
    /\ batch.ret[1].eligible_products /= batch.ret[2].eligible_products

\* ---------------------------------------------------------------- worker pool
\* both saves completed and went to the same store file
BothSavedTo(s) ==
    \A k \in PoolKeys : pool.task[k].pc = "done" /\ StoreName(pool.task[k].added) = s

\* the store file s does not hold the record saved for key k
LostIn(s, k) ==
    \/ pool.store[s].kind /= "ok"
    \/ k \notin DOMAIN pool.store[s].data
    \/ pool.store[s].data[k] /= PoolItem(k)

\* C11: two saves to the same store lose an update exactly when they
\* overlap (one task reads the file between the read and the write of the
\* other): after such an interleaving the store holds only one of the two
\* keys. Saves overlap only when more than one worker runs.
C11_LostUpdateIffOverlap ==
    /\ pool.overlap => pool.max_workers > 1
    /\ \A s \in {"success", "failure"} :
          BothSavedTo(s) => (pool.overlap <=> \E k \in PoolKeys : LostIn(s, k))

\* both workers saved a failure to a store that did not exist; add_products_to_cart
\* completed and the store holds one key
C11_Witness ==
    /\ pool.main = "completed"
    /\ BothSavedTo("failure")
    /\ Cardinality(DOMAIN pool.store["failure"].data) = 1

\* C12 as stated: whatever goes wrong while an item is processed,
\* add_products_to_cart completes normally and the outcome of every item
\* has been saved.
C12_NoErrorIsFatal ==
    /\ pool.main /= "raised"
    /\ pool.main = "completed" => \A k \in PoolKeys : pool.task[k].pc = "done"

C26_ProxyOnlyOnBlock ==
    [][/\ (~proxy_needed /\ proxy_needed') =>
             /\ pc = "loaded"
             /\ ~hist.call_blocked
             /\ hist'.call_blocked
       /\ (hist'.call_failed = hist.call_failed + 1 /\ hist'.call_blocked = hist.call_blocked) =>
             /\ retries' = retries + 1
             /\ proxy_needed' = proxy_needed
    ]_vars

\* after two failures without a block the call has used two retries and
\* has not switched to the proxy
C26_Witness ==
    /\ pc = "while"
    /\ retries = 2
    /\ hist.call_failed = 2
    /\ ~hist.call_blocked
    /\ ~proxy_needed

\* the candidates attempt_add_to_cart was called on before the last call
EarlierCalls == {hist.calls[k] : k \in 1..(Len(hist.calls) - 1)}

\* C27: attempt_add_to_cart is called on the candidates in rank order, each at
\* most once; when it is called on a candidate, every earlier candidate was
\* either already added or had its call return after retry_attempts failed
\* attempts; sessions are opened only for the candidate of the last call.
C27_RankOrder ==
    /\ \A k \in 1..(Len(hist.calls) - 1) :
          /\ hist.calls[k] < hist.calls[k + 1]
          /\ k <= Len(hist.spent)
          /\ hist.spent[k] = retry_attempts
    /\ Len(hist.calls) > 0 =>
          \A i \in 1..(hist.calls[Len(hist.calls)] - 1) :
              i \in EarlierCalls \/ AlreadyAdded(ProductsList[i])
    /\ pc \in {"while", "opened", "loaded", "logged", "ret"} =>
          /\ Len(hist.calls) > 0
          /\ idx = hist.calls[Len(hist.calls)]

\* the first candidate used its budget, the second was already added and a
\* session is open for the third
C27_Witness ==
    /\ pc = "opened"
    /\ hist.calls = <<1, 3>>
    /\ retry_attempts = 2
    /\ hist.opened = 3

\* C28 as stated: with retry_attempts >= 2 no candidate at position 2 or later
\* (counted from 0) is attempted and the item costs at most 2 * retry_attempts
\* sessions; with retry_attempts < 2 every candidate not already added is
\* attempted unless an earlier one succeeded.
C28_EarlyCutoff ==
    /\ retry_attempts >= 2 =>
          /\ \A k \in 1..Len(hist.calls) : hist.calls[k] - 1 < 2
          /\ hist.opened <= 2 * retry_attempts
    /\ (retry_attempts < 2 /\ pc = "done" /\ result = "None"
                           /\ ~NoEligibleProducts(item_info)) =>
          \A i \in 1..Len(ProductsList) :
              AlreadyAdded(ProductsList[i]) \/ \E k \in 1..Len(hist.calls) : hist.calls[k] = i

\* C28, amended: with retry_attempts >= 2 attempt_add_to_cart is called on at
\* most two candidates of an item, which costs at most 2 * retry_attempts
\* sessions; a candidate at position 2 or later is attempted only when a
\* candidate before it was skipped as already added. With retry_attempts < 2
\* every candidate not already added is attempted unless an earlier one
\* succeeded.
C28_CutoffAfterSecondCall ==
    /\ retry_attempts >= 2 =>
          /\ Len(hist.calls) <= 2
          /\ hist.opened <= 2 * retry_attempts
          /\ \A k \in 1..Len(hist.calls) :
                hist.calls[k] - 1 >= 2 =>
                    \E i \in 1..(hist.calls[k] - 1) : AlreadyAdded(ProductsList[i])
    /\ (retry_attempts < 2 /\ pc = "done" /\ result = "None"
                           /\ ~NoEligibleProducts(item_info)) =>
          \A i \in 1..Len(ProductsList) :
              AlreadyAdded(ProductsList[i]) \/ \E k \in 1..Len(hist.calls) : hist.calls[k] = i

\* two candidates used their budgets and the third, not added, was never
\* attempted
C28_Witness ==
    /\ pc = "done"
    /\ retry_attempts = 2
    /\ hist.calls = <<1, 2>>
    /\ hist.opened = 4
    /\ Len(ProductsList) = 3
    /\ ~AlreadyAdded(ProductsList[3])

\* C29: in a logged-in attempt whose page has no add-to-cart control nothing
\* is clicked; the attempt returns True when the page shows the in-cart
\* confirmation, and otherwise fails and uses one retry.
C29_AbsentControl ==
    [][(pc = "logged" /\ ~signals.button_visible) =>
         /\ ~hist'.clicked
         /\ signals.in_cart =>
               /\ pc' = "ret"
               /\ attempt_ok'
               /\ retries' = retries
         /\ ~signals.in_cart =>
               /\ pc' = "while"
               /\ ~attempt_ok'
               /\ retries' = retries + 1
    ]_vars

\* the attempt returned True on a page without the control
C29_Witness ==
    /\ pc = "ret"
    /\ attempt_ok
    /\ ~signals.button_visible
    /\ signals.in_cart
    /\ ~hist.clicked

\* C30 as stated: when the control is missing or the click on it fails, the
\* already-in-cart check is made and its positive result makes the attempt a
\* success.
C30_FallbackAfterInteractionError ==
    [][(pc = "logged" /\ signals.in_cart
          /\ (~signals.button_visible \/ signals.click_raises)) =>
         /\ pc' = "ret"
         /\ attempt_ok'
    ]_vars

\* ----------------------------------------------------------------- idempotence
\* C24: the second call of process_product, made on the record the first call
\* returned and the same candidates, leaves the record as the first call made
\* it: the same shortlist, the same candidates in the same order, and it is
\* the shortlist a call on the input item gives.
C24_Idempotent ==
    [][(pc = "scraped" /\ pc' = "rematched") =>
         /\ item_info' = item_info
         /\ item_info'.eligible_products =
               ProcessProduct(InputItem(item_info.product_name, item_info.min_price.val,
                                        item_info.max_price.val),
                              parsed_products).eligible_products
    ]_vars

\* the second call was made on three candidates, two of them shortlisted
C24_Witness ==
    /\ pc = "rematched"
    /\ Len(parsed_products) = 3
    /\ Len(Shortlist) = 2
    /\ Shortlist[1].price /= Shortlist[2].price

\* C23 as stated: an error raised while a batch is processed leaves
\* get_eligible_products as an exception, never as a returned value, and the
\* results of the batches completed before are not discarded.
C23_BatchErrorPropagates ==
    batch.failed =>
        /\ batch.phase = "raised"
        /\ batch.ret = batch.results

\* ------------------------------------------------------------- the worker pool
\* the tasks a worker thread is running
Busy == {k \in PoolKeys : pool.task[k].pc \in Running}

\* C21: the items processed at the same time, and so the browsers open at the
\* same time, never exceed min(max_workers, number of items); an open browser
\* belongs to a running task, which opened it and is the only one to use it.
C21_PoolBound ==
    /\ Cardinality(Busy) <= Min(pool.max_workers, Len(PoolOrder))
    /\ Cardinality({k \in PoolKeys : pool.task[k].browser.open})
          <= Min(pool.max_workers, Len(PoolOrder))
    /\ \A k \in PoolKeys :
          pool.task[k].browser.open =>
              /\ k \in Busy
              /\ pool.task[k].browser.opened_by = k
              /\ pool.task[k].browser.used_by = {k}

\* two workers, each with its own browser open
C21_Witness ==
    /\ pool.max_workers = 2
    /\ \A k \in PoolKeys :
          /\ pool.task[k].pc = "browser"
          /\ pool.task[k].browser.open

\* C22 as stated, for its first step: while one worker is stuck in a browser
\* operation, an item still queued finds a free worker, so it can go on to
\* its recorded outcome. (A stuck task makes no further step, so a queued
\* item without a free worker stays queued for ever.)
C22_StuckBlocksNobody ==
    (\E o \in PoolKeys : pool.task[o].pc = "stuck") =>
        \A k \in PoolKeys :
            pool.task[k].pc = "queued" =>
                \/ \E o \in PoolKeys : pool.task[o].pc \in Running \ {"stuck"}
                \/ CanStart(Cardinality(Busy), WorkerCount(pool.max_workers, Len(PoolOrder)))

\* C31: the workers share no mutable state but the two outcome stores; here,
\* the positions recorded in used_positions were all written by one worker
PositionWriters ==
    {k \in PoolKeys : GridPosition(WindowIndex(k)) \in pool.used_positions}

C31_OnlyStoresShared == Cardinality(PositionWriters) <= 1

\* C32: with every browser operation returning, an item's processing ends
\* with a recorded outcome within the session budget of its retry counter, and
\* add_products_to_cart returns once every item has ended
C32_EndsRecordedWithinBudget ==
    /\ \A k \in PoolKeys :
          /\ pool.task[k].tries <= MaxRetry
          /\ pool.task[k].pc \notin Running \cup {"queued"} => pool.task[k].pc = "done"
    /\ pool.main /= "running" =>
          /\ pool.main = "completed"
          /\ \A k \in PoolKeys : pool.task[k].pc = "done"

\* C33: what search_page_parser returns for several pages holds the candidates
\* parsed from every one of the pages
C33_CoversEveryPage ==
    parse.ret.kind = "list" =>
        \A k \in 1..Len(parse.pages) :
            parse.pages[k].json = "ok" =>
                \A j \in 1..Len(parse.pages[k].json_products) :
                    \E m \in 1..Len(parse.ret.products) :
                        parse.ret.products[m] = parse.pages[k].json_products[j]

\* C34: within one attempt_add_to_cart call, once proxy_needed is true it stays
\* true until the call returns, and every session the call opens from then on
\* is a proxied one
C34_ProxyMonotonic ==
    [][(proxy_needed /\ pc \in {"while", "opened", "loaded", "logged"}) =>
          /\ proxy_needed'
          /\ (~session.open /\ session'.open) => session'.proxied
    ]_vars

\* after a block, a later attempt of the same call clicked the control and
\* failed: the call still asks for the proxy
C34_Witness ==
    /\ pc = "while"
    /\ retries = 2
    /\ hist.call_blocked
    /\ hist.clicked
    /\ proxy_needed

\* the shortlist the scraper computes for the item: empty when float() of a
\* band value raises
ScraperShortlist ==
    LET lo == GetOr(item_info.min_price, 0)
        hi == GetOr(item_info.max_price, Inf)
    IN  IF FloatRaises(lo) \/ FloatRaises(hi)
        THEN <<>>
        ELSE TopMatches(SortedProducts(FilterProducts(parsed_products, lo.val, hi.val), lo.val))

\* C35: on every path of the scraper's process_product the list the cart
\* orchestrator reads from eligible_products[0] is the scraper's shortlist, in
\* its order, and these are the candidates it attempts; with an empty
\* shortlist the item is treated as having no candidate
C35_AttemptsTheShortlist ==
    pc \notin {"scrape", "scraped", "start"} =>
        IF ScraperShortlist = <<>>
        THEN /\ NoEligibleProducts(item_info)
             /\ hist.calls = <<>>
             /\ hist.opened = 0
             /\ result = "None"
        ELSE /\ Len(Shortlist) = Len(ScraperShortlist)
             /\ \A k \in 1..Len(ScraperShortlist) :
                   /\ Shortlist[k].name = ScraperShortlist[k].name
                   /\ Shortlist[k].price = ScraperShortlist[k].price
             /\ \A k \in 1..Len(hist.calls) : hist.calls[k] = k
             /\ Len(hist.calls) <= Len(ScraperShortlist)

\* an item whose band made process_product fail had in-band-priced candidates
\* scraped and was processed as an item without candidates
C35_Witness ==
    /\ pc = "done"
    /\ "error" \in DOMAIN item_info
    /\ Len(parsed_products) >= 2
    /\ retry_attempts >= 1
    /\ hist.opened = 0
\* a candidate an earlier run flagged (Flagged: added_time 0, before the clock
\* of this run)
FlaggedBefore(product) ==
    /\ "added_to_cart" \in DOMAIN product
    /\ product.added_to_cart
    /\ product.added_time = 0

\* every candidate of the item's list came flagged from an earlier run
AllFlaggedBefore ==
    /\ ~NoEligibleProducts(item_info)
    /\ \A i \in 1..Len(ProductsList) : FlaggedBefore(ProductsList[i])

\* C36: an item whose candidates are all flagged added_to_cart already is
\* processed without a browser session and is written to the failure store,
\* the success store being left as it was
C36_AllFlaggedGoesToFailure ==
    AllFlaggedBefore =>
        /\ hist.calls = <<>>
        /\ hist.opened = 0
        /\ ~session.open
        /\ pc = "done" =>
              /\ result = "None"
              /\ hist.writes = <<"failure">>
              /\ Stored("failure")
              /\ files["success"] = hist.files0["success"]

\* an item with two candidates, both flagged, was processed with a retry budget
C36_Witness ==
    /\ pc = "done"
    /\ AllFlaggedBefore
    /\ Len(ProductsList) >= 2
    /\ retry_attempts >= 1

\* C37: recording an item in one store never takes a key out of either store,
\* so an item an earlier run left in the failure store and this run adds to
\* the cart ends in both stores
C37_StoresNotDisjoint ==
    /\ \A store \in {"success", "failure"} :
          StoredKeys(hist.files0[store]) \subseteq StoredKeys(files[store])
    /\ (pc = "done" /\ result = "dict" /\ item_key \in StoredKeys(hist.files0["failure"])) =>
          /\ item_key \in StoredKeys(files["failure"])
          /\ item_key \in StoredKeys(files["success"])

\* the item failed in an earlier run, was not in the success store, and
\* this run added it to the cart
C37_Witness ==
    /\ pc = "done"
    /\ result = "dict"
    /\ hist.files0["failure"].kind = "ok"
    /\ hist.files0["success"].kind = "missing"
    /\ files["failure"].data[item_key] = OldRecord
    /\ files["success"].data[item_key] = item_info

====
